---- MODULE Spec2Model ----
(***************************************************************************)
(* osm-construction-extractor, src/main.rs: main() opens a PBF file, asks  *)
(* the decoder for every way that satisfies `predicate` plus the nodes     *)
(* those ways reference (pass 1), and turns every such way whose node      *)
(* references all resolve into a ConstructionWay (pass 2).                 *)
(*                                                                         *)
(* Coordinates are kept in the decoder's integer unit (1e-7 degree):       *)
(* Node::lon()/lat() scale that integer by a constant.                     *)
(***************************************************************************)
EXTENDS Integers, Sequences, FiniteSets, TLC

\* ---------------------------------------------------------------- bounds
\* Node ids of the input are 1..MaxNodeId.
MaxNodeId == 2
\* A way of the input has at most MaxRefs node references.
MaxRefs == 2

\* Way ids of the input.  They overlap the node ids on purpose: OsmId keeps
\* Node(1) and Way(1) apart.
WayIds == {1, 2}
NodeIds == 1..MaxNodeId

\* Tag mappings of the input ways: only "highway"; only "construction" (plus
\* an unrelated key); both keys, with values that say nothing of a road under
\* construction.
TagSets ==
  { [highway |-> "residential"],
    [construction |-> "yes", name |-> "A1"],
    [highway |-> "construction", construction |-> "no", name |-> "B2"] }

\* ------------------------------------------------------------ data model
\* Option<T>
None == <<>>
Some(x) == <<x>>

\* OsmId::Node(id) / OsmId::Way(id); node_id.into() at the lookup.
NodeKey(node_id) == <<"Node", node_id>>
WayKey(way_id) == <<"Way", way_id>>

\* OsmObj::Node and OsmObj::Way.  A node's position is fixed by its id; the
\* longitude and latitude of one node differ, and so do those of two nodes.
Node(n) == [kind |-> "Node", id |-> n, decimicro_lat |-> 10 * n + 5, decimicro_lon |-> 10 * n]
Way(w, nodes, tags) == [kind |-> "Way", id |-> w, nodes |-> nodes, tags |-> tags]

lon(node) == node.decimicro_lon
lat(node) == node.decimicro_lat

\* derive(Ord) on OsmId: Node < Way, then the numeric id.
KindRank(kind) == IF kind = "Node" THEN 0 ELSE 1
\* KeyLess with the numeric ids compared the wrong way round.
KeyLess_Descending(a, b) == \/ KindRank(a[1]) < KindRank(b[1])
                            \/ a[1] = b[1] /\ a[2] > b[2]

KeyLess(a, b) == \/ KindRank(a[1]) < KindRank(b[1])
                 \/ a[1] = b[1] /\ a[2] < b[2]

\* BTreeMap keys in iteration order.
RECURSIVE SortedKeys(_)
SortedKeys(K) ==
  IF K = {} THEN <<>>
  ELSE LET m == CHOOSE k \in K : \A j \in K \ {k} : KeyLess(k, j)
       IN <<m>> \o SortedKeys(K \ {m})

\* BTreeMap::values()
Values(map) == LET ks == SortedKeys(DOMAIN map) IN [i \in 1..Len(ks) |-> map[ks[i]]]

\* BTreeMap::get
Get(map, key) == IF key \in DOMAIN map THEN Some(map[key]) ELSE None

EmptyMap == [k \in {} |-> None]

\* HashMap / Tags ::contains_key
ContainsKey(tags, k) == k \in DOMAIN tags

\* --------------------------------------------------------------- the input
RefLists == UNION { [1..n -> NodeIds] : n \in 0..MaxRefs }
WayBodies == [nodes : RefLists, tags : TagSets]
WayMaps == UNION { [S -> WayBodies] : S \in SUBSET WayIds }

\* The decoded content of a PBF file: the nodes S and the ways W.
Dataset(S, W) ==
  [k \in {NodeKey(n) : n \in S} \cup {WayKey(w) : w \in DOMAIN W} |->
     IF k[1] = "Node" THEN Node(k[2]) ELSE Way(k[2], W[k[2]].nodes, W[k[2]].tags)]

Datasets == { Dataset(S, W) : S \in SUBSET NodeIds, W \in WayMaps }

\* ------------------------------------------------------------------ pass 1
MinNodes == 2

\* predicate testing the "highway" key only.
predicate_HighwayOnly(obj) ==
  IF obj.kind = "Way" /\ Len(obj.nodes) >= MinNodes
  THEN ContainsKey(obj.tags, "highway")
  ELSE FALSE

predicate(obj) ==
  IF obj.kind = "Way" /\ Len(obj.nodes) >= MinNodes
  THEN ContainsKey(obj.tags, "highway") /\ ContainsKey(obj.tags, "construction")
  ELSE FALSE

\* reader.get_objs_and_deps(predicate): the objects of the file satisfying
\* predicate and the objects of the file they depend on (for a way, its nodes).
Deps(obj) == IF obj.kind = "Way" THEN {NodeKey(obj.nodes[i]) : i \in 1..Len(obj.nodes)} ELSE {}

get_objs_and_deps(file) ==
  LET roots == {k \in DOMAIN file : predicate(file[k])}
      deps == UNION {Deps(file[r]) : r \in roots} \cap DOMAIN file
  IN  [k \in roots \cup deps |-> file[k]]

\* ------------------------------------------------------------------ pass 2
\* The closure of ways_to_process' filter_map.
IsConstructionWay(obj) ==
  IF obj.kind = "Way"
  THEN ContainsKey(obj.tags, "highway") /\ ContainsKey(obj.tags, "construction")
  ELSE FALSE

WaysToProcess(map) == SelectSeq(Values(map), IsConstructionWay)

\* The match on objects.get(&node_id.into()): the node, or None for the `_` arm.
Resolve(map, node_id) ==
  LET r == Get(map, NodeKey(node_id))
  IN  IF r # None /\ r[1].kind = "Node" THEN r ELSE None

\* CoordOf with latitude and longitude exchanged.
CoordOf_Swapped(node) == [x |-> lat(node), y |-> lon(node)]

\* Coord { x: node.lon(), y: node.lat() }
CoordOf(node) == [x |-> lon(node), y |-> lat(node)]

\* tags_map: every (k, v) of way.tags inserted as owned strings.
TagsMap(tags) == [k \in DOMAIN tags |-> tags[k]]

ConstructionWay(way, cs) == [id |-> way.id, tags |-> TagsMap(way.tags), geometry |-> cs]

\* ------------------------------------------------------------------- state
VARIABLES
  pc,               \* position in main
  f,                \* File::open's result: "none" before the call, "Ok", "Err"
  dataset,          \* what the file decodes to, once the decoder has read it
  decoded,          \* get_objs_and_deps' result: "none", "Ok", "Err"
  objects,          \* BTreeMap<OsmId, OsmObj>
  ways_to_process,  \* Vec<&Way>
  wi,               \* ways of ways_to_process the for loop has taken
  way,              \* the loop variable (None outside the loop body)
  ni,               \* references of way.nodes the inner loop has taken
  coords,           \* Vec<Coord>
  valid_way,
  final_ways,       \* Vec<ConstructionWay>
  bar,              \* the progress bar's length and position
  stdout,           \* the counts println! has printed
  stderr,           \* the warnings eprintln! has printed
  lookups,          \* the calls of objects.get made by the inner loop
  ret               \* main's return value: "none" while running, "Ok", "Err"

vars == <<pc, f, dataset, decoded, objects, ways_to_process, wi, way, ni, coords,
          valid_way, final_ways, bar, stdout, stderr, lookups, ret>>

pass1 == <<dataset, decoded, objects>>
loop == <<wi, way, ni, coords, valid_way>>
out == <<final_ways, stdout, stderr, lookups>>

Init ==
  /\ pc = "open"
  /\ f = "none"
  /\ dataset = EmptyMap
  /\ decoded = "none"
  /\ objects = EmptyMap
  /\ ways_to_process = <<>>
  /\ wi = 0
  /\ way = None
  /\ ni = 0
  /\ coords = <<>>
  /\ valid_way = TRUE
  /\ final_ways = <<>>
  /\ bar = [len |-> 0, pos |-> 0]
  /\ stdout = <<>>
  /\ stderr = <<>>
  /\ lookups = <<>>
  /\ ret = "none"

\* File::open(&args.input)?  succeeds
OpenOk ==
  /\ pc = "open"
  /\ f' = "Ok"
  /\ pc' = "pass1"
  /\ UNCHANGED <<pass1, ways_to_process, loop, bar, out, ret>>

\* File::open(&args.input)?  fails: main returns the error
OpenErr ==
  /\ pc = "open"
  /\ f' = "Err"
  /\ ret' = "Err"
  /\ pc' = "exit"
  /\ UNCHANGED <<pass1, ways_to_process, loop, bar, out>>

\* reader.get_objs_and_deps(predicate)?  succeeds on a file that decodes to file
Pass1Ok(file) ==
  /\ pc = "pass1"
  /\ dataset' = file
  /\ decoded' = "Ok"
  /\ objects' = get_objs_and_deps(file)
  /\ stdout' = Append(stdout, [line |-> "found", n |-> Cardinality(DOMAIN objects')])
  /\ pc' = "pass2"
  /\ UNCHANGED <<f, ways_to_process, loop, bar, final_ways, stderr, lookups, ret>>

\* Pass1Err with the error swallowed: main goes on with an empty store.
Pass1Err_Swallowed ==
  /\ pc = "pass1"
  /\ decoded' = "Err"
  /\ pc' = "pass2"
  /\ UNCHANGED <<f, dataset, objects, ways_to_process, loop, bar, out, ret>>

\* reader.get_objs_and_deps(predicate)?  fails: main returns the error
Pass1Err ==
  /\ pc = "pass1"
  /\ decoded' = "Err"
  /\ ret' = "Err"
  /\ pc' = "exit"
  /\ UNCHANGED <<f, dataset, objects, ways_to_process, loop, bar, out>>

\* Collect with a progress-bar template that does not parse: `?` returns the error.
Collect_TemplateErr ==
  /\ pc = "pass2"
  /\ ways_to_process' = WaysToProcess(objects)
  /\ ret' = "Err"
  /\ pc' = "exit"
  /\ UNCHANGED <<f, pass1, loop, bar, out>>

\* ways_to_process, the progress bar and final_ways are set up
Collect ==
  /\ pc = "pass2"
  /\ ways_to_process' = WaysToProcess(objects)
  /\ bar' = [len |-> Len(ways_to_process'), pos |-> 0]
  /\ final_ways' = <<>>
  /\ pc' = "for_way"
  /\ UNCHANGED <<f, pass1, loop, stdout, stderr, lookups, ret>>

\* for way in ways_to_process: the next way is taken
NextWay ==
  /\ pc = "for_way"
  /\ wi < Len(ways_to_process)
  /\ wi' = wi + 1
  /\ way' = Some(ways_to_process[wi + 1])
  /\ coords' = <<>>
  /\ valid_way' = TRUE
  /\ ni' = 0
  /\ pc' = "for_node"
  /\ UNCHANGED <<f, pass1, ways_to_process, bar, out, ret>>

\* for &node_id in &way.nodes: the reference resolves to a node
NodeFound ==
  /\ pc = "for_node"
  /\ ni < Len(way[1].nodes)
  /\ LET node_id == way[1].nodes[ni + 1]
         r == Resolve(objects, node_id)
     IN  /\ r # None
         /\ coords' = Append(coords, CoordOf(r[1]))
         /\ lookups' = Append(lookups, [way_id |-> way[1].id, node_id |-> node_id])
  /\ ni' = ni + 1
  /\ UNCHANGED <<pc, f, pass1, ways_to_process, wi, way, valid_way, final_ways, bar,
                 stdout, stderr, ret>>

\* NodeMissing that warns and leaves the inner loop without marking the way invalid.
NodeMissing_KeepsWay ==
  /\ pc = "for_node"
  /\ ni < Len(way[1].nodes)
  /\ LET node_id == way[1].nodes[ni + 1]
         r == Resolve(objects, node_id)
     IN  /\ r = None
         /\ stderr' = Append(stderr, [node_id |-> node_id, way_id |-> way[1].id])
         /\ lookups' = Append(lookups, [way_id |-> way[1].id, node_id |-> node_id])
  /\ ni' = ni + 1
  /\ pc' = "check"
  /\ UNCHANGED <<f, pass1, ways_to_process, wi, way, coords, valid_way, final_ways, bar,
                 stdout, ret>>

\* NodeMissing that warns, marks the way invalid and goes on with the next reference.
NodeMissing_NoBreak ==
  /\ pc = "for_node"
  /\ ni < Len(way[1].nodes)
  /\ LET node_id == way[1].nodes[ni + 1]
         r == Resolve(objects, node_id)
     IN  /\ r = None
         /\ stderr' = Append(stderr, [node_id |-> node_id, way_id |-> way[1].id])
         /\ lookups' = Append(lookups, [way_id |-> way[1].id, node_id |-> node_id])
  /\ valid_way' = FALSE
  /\ ni' = ni + 1
  /\ UNCHANGED <<pc, f, pass1, ways_to_process, wi, way, coords, final_ways, bar, stdout, ret>>

\* for &node_id in &way.nodes: the reference does not resolve; warn and break
NodeMissing ==
  /\ pc = "for_node"
  /\ ni < Len(way[1].nodes)
  /\ LET node_id == way[1].nodes[ni + 1]
         r == Resolve(objects, node_id)
     IN  /\ r = None
         /\ stderr' = Append(stderr, [node_id |-> node_id, way_id |-> way[1].id])
         /\ lookups' = Append(lookups, [way_id |-> way[1].id, node_id |-> node_id])
  /\ valid_way' = FALSE
  /\ ni' = ni + 1
  /\ pc' = "check"
  /\ UNCHANGED <<f, pass1, ways_to_process, wi, way, coords, final_ways, bar, stdout, ret>>

\* the inner loop has taken every reference
NodesDone ==
  /\ pc = "for_node"
  /\ ni = Len(way[1].nodes)
  /\ pc' = "check"
  /\ UNCHANGED <<f, pass1, ways_to_process, loop, bar, out, ret>>

\* SkipWay with `break` for `continue`: the first dropped way ends the loop.
SkipWay_Break ==
  /\ pc = "check"
  /\ ~valid_way
  /\ bar' = [bar EXCEPT !.pos = bar.len]
  /\ way' = None
  /\ pc' = "report"
  /\ UNCHANGED <<f, pass1, ways_to_process, wi, ni, coords, valid_way, out, ret>>

\* if !valid_way { bar.inc(1); continue; }
SkipWay ==
  /\ pc = "check"
  /\ ~valid_way
  /\ bar' = [bar EXCEPT !.pos = @ + 1]
  /\ way' = None
  /\ pc' = "for_way"
  /\ UNCHANGED <<f, pass1, ways_to_process, wi, ni, coords, valid_way, out, ret>>

\* PushWay without the valid_way test before it.
PushWay_Unchecked ==
  /\ pc = "check"
  /\ final_ways' = Append(final_ways, ConstructionWay(way[1], coords))
  /\ bar' = [bar EXCEPT !.pos = @ + 1]
  /\ way' = None
  /\ pc' = "for_way"
  /\ UNCHANGED <<f, pass1, ways_to_process, wi, ni, coords, valid_way, stdout, stderr,
                 lookups, ret>>

\* final_ways.push(ConstructionWay { .. }); bar.inc(1);
PushWay ==
  /\ pc = "check"
  /\ valid_way
  /\ final_ways' = Append(final_ways, ConstructionWay(way[1], coords))
  /\ bar' = [bar EXCEPT !.pos = @ + 1]
  /\ way' = None
  /\ pc' = "for_way"
  /\ UNCHANGED <<f, pass1, ways_to_process, wi, ni, coords, valid_way, stdout, stderr,
                 lookups, ret>>

\* the for loop ends: bar.finish_with_message
LoopDone ==
  /\ pc = "for_way"
  /\ wi = Len(ways_to_process)
  /\ bar' = [bar EXCEPT !.pos = bar.len]
  /\ pc' = "report"
  /\ UNCHANGED <<f, pass1, ways_to_process, loop, out, ret>>

\* Report printing the number of candidate ways as the number extracted.
Report_Candidates ==
  /\ pc = "report"
  /\ stdout' = Append(stdout, [line |-> "extracted", n |-> Len(ways_to_process)])
  /\ ret' = "Ok"
  /\ pc' = "exit"
  /\ UNCHANGED <<f, pass1, ways_to_process, loop, final_ways, bar, stderr, lookups>>

\* the benchmark results are printed and main returns Ok(())
Report ==
  /\ pc = "report"
  /\ stdout' = Append(stdout, [line |-> "extracted", n |-> Len(final_ways)])
  /\ ret' = "Ok"
  /\ pc' = "exit"
  /\ UNCHANGED <<f, pass1, ways_to_process, loop, final_ways, bar, stderr, lookups>>

\* the decoder reads some file
Pass1 ==
  /\ pc = "pass1"
  /\ \E file \in Datasets : Pass1Ok(file)

Next ==
  \/ OpenOk
  \/ OpenErr
  \/ Pass1
  \/ Pass1Err
  \/ Collect
  \/ NextWay
  \/ NodeFound
  \/ NodeMissing
  \/ NodesDone
  \/ SkipWay
  \/ PushWay
  \/ LoopDone
  \/ Report

Spec == Init /\ [][Next]_vars

\* ------------------------------------------------------ terms of the claims
\* The positions of main inside pass 2 (the Restructurer).
Pass2PCs == {"pass2", "for_way", "for_node", "check", "report"}

\* The way objects and the point objects of a map.
WaysOf(map) == {map[k] : k \in {j \in DOMAIN map : map[j].kind = "Way"}}
PointsOf(map) == {map[k] : k \in {j \in DOMAIN map : map[j].kind = "Node"}}

HasBothKeys(w) == "highway" \in DOMAIN w.tags /\ "construction" \in DOMAIN w.tags

\* The store holds a point with the numeric id n.
HasPoint(n) == \E p \in PointsOf(objects) : p.id = n
PointWithId(n) == CHOOSE p \in PointsOf(objects) : p.id = n

\* The positions of w's reference list that name no point of the store.
UnresolvedAt(w) == {i \in 1..Len(w.nodes) : ~HasPoint(w.nodes[i])}
AllResolve(w) == UnresolvedAt(w) = {}
FirstUnresolved(w) == CHOOSE i \in UnresolvedAt(w) : \A j \in UnresolvedAt(w) : i <= j

\* The output records that carry the id of w.
RecordsOf(w) == {i \in 1..Len(final_ways) : final_ways[i].id = w.id}

\* The references of w the inner loop examines: up to the first unresolved one.
Examined(w) == IF AllResolve(w) THEN Len(w.nodes) ELSE FirstUnresolved(w)

\* The ways of ways_to_process whose loop iteration is over.
Finished == IF pc \in {"for_node", "check"} THEN wi - 1 ELSE wi

DiagsOf(w) == SelectSeq(stderr, LAMBDA d : d.way_id = w.id)
LookupsOf(w) == SelectSeq(lookups, LAMBDA l : l.way_id = w.id)

\* ------------------------------------------------------------------ claims
\* C1: in every state of the run, every record of final_ways has exactly as
\* many coordinates as the reference list of the way of the store it carries
\* the id of; no shorter sequence is ever in final_ways.
C1_FullLength ==
  \A i \in 1..Len(final_ways) :
    \E w \in WaysOf(objects) :
      /\ w.id = final_ways[i].id
      /\ Len(final_ways[i].geometry) = Len(w.nodes)

\* A run that ended with a record in the output and with a dropped way whose
\* first reference resolved: a partial sequence existed and was thrown away.
C1_Witness ==
  /\ ret = "Ok"
  /\ final_ways # <<>>
  /\ \E w \in WaysOf(objects) : ~AllResolve(w) /\ FirstUnresolved(w) > 1

\* C2: no record of final_ways carries the id of a way of the store that has
\* a reference naming no point of the store; a way of the store with the same
\* number as the reference does not make it resolve.
C2_UnresolvedExcluded ==
  \A w \in WaysOf(objects) : ~AllResolve(w) => RecordsOf(w) = {}

\* A finished run in which a way referenced a missing point whose number is
\* the id of a way of the store.
C2_Witness ==
  /\ ret = "Ok"
  /\ \E w \in WaysOf(objects) :
       \E i \in UnresolvedAt(w) : \E v \in WaysOf(objects) : v.id = w.nodes[i]

\* C3: a way of the input that lacks "highway" or lacks "construction" is no
\* entry of the store and no record of final_ways carries its id, whether or
\* not its references name points of the input.
C3_TagFilter ==
  \A w \in WaysOf(dataset) :
    ~HasBothKeys(w) =>
      /\ w \notin WaysOf(objects)
      /\ \A o \in WaysOf(objects) : o.id # w.id
      /\ \A i \in 1..Len(final_ways) : final_ways[i].id # w.id

\* A finished run with an output record, on an input that also holds a way
\* lacking one key, with two or more references that are all points of the
\* store.
C3_Witness ==
  /\ ret = "Ok"
  /\ final_ways # <<>>
  /\ \E w \in WaysOf(dataset) :
       /\ ~HasBothKeys(w)
       /\ Len(w.nodes) >= 2
       /\ AllResolve(w)

\* C4: the i-th coordinate of every record is (longitude, latitude) of the
\* point named by the i-th reference of its way, for every i.
C4_OrderedCoords ==
  \A r \in 1..Len(final_ways) :
    \E w \in WaysOf(objects) :
      /\ w.id = final_ways[r].id
      /\ DOMAIN final_ways[r].geometry = DOMAIN w.nodes
      /\ \A i \in DOMAIN w.nodes :
           /\ HasPoint(w.nodes[i])
           /\ final_ways[r].geometry[i].x = PointWithId(w.nodes[i]).decimicro_lon
           /\ final_ways[r].geometry[i].y = PointWithId(w.nodes[i]).decimicro_lat

\* The output holds a record of a way naming two different points and a record
\* of a way naming one point twice.
C4_Witness ==
  /\ \E r \in 1..Len(final_ways) :
       final_ways[r].geometry[1] # final_ways[r].geometry[2]
  /\ \E r \in 1..Len(final_ways) :
       final_ways[r].geometry[1] = final_ways[r].geometry[2]

\* C5: when pass 2 is over, every way of the store with both keys whose
\* references all resolve has exactly one record, with its id and its tags.
C5_OneRecordEach ==
  pc \in {"report", "exit"} /\ decoded = "Ok" =>
    \A w \in WaysOf(objects) :
      HasBothKeys(w) /\ AllResolve(w) =>
        /\ Cardinality(RecordsOf(w)) = 1
        /\ \A i \in RecordsOf(w) : final_ways[i].tags = w.tags

\* Pass 2 is over, a way was dropped and a way after it has its record.
C5_Witness ==
  /\ pc \in {"report", "exit"}
  /\ \E i \in 1..Len(ways_to_process) : \E j \in 1..Len(ways_to_process) :
       /\ i < j
       /\ ~AllResolve(ways_to_process[i])
       /\ RecordsOf(ways_to_process[j]) # {}

\* C6 as stated: a successful run has printed the number of records and the
\* number of candidate ways.
C6_ReportsCandidates ==
  ret = "Ok" =>
    /\ \E i \in 1..Len(stdout) : stdout[i].line = "extracted" /\ stdout[i].n = Len(final_ways)
    /\ \E i \in 1..Len(stdout) : stdout[i].line # "extracted" /\ stdout[i].n = Len(ways_to_process)

\* C6, amended: a successful run has printed exactly two counts, the number of
\* objects of the store (its ways and its points together) and the number of
\* records; the number of candidate ways went to the progress bar only, and
\* the number of dropped ways is the number of warnings printed.
C6_ReportsObjectsAndRetained ==
  ret = "Ok" =>
    /\ stdout = << [line |-> "found",
                    n |-> Cardinality(WaysOf(objects)) + Cardinality(PointsOf(objects))],
                   [line |-> "extracted", n |-> Len(final_ways)] >>
    /\ bar.len = Len(ways_to_process)
    /\ Len(stderr) = Len(ways_to_process) - Len(final_ways)

\* A successful run that dropped a way and whose store holds a point.
C6_Witness ==
  /\ ret = "Ok"
  /\ Len(final_ways) < Len(ways_to_process)
  /\ PointsOf(objects) # {}

\* C7: if File::open or get_objs_and_deps failed, main has returned the error,
\* pass 2 never started and nothing was produced; and pass 2 is entered only
\* with both calls succeeded and the store the decoder returned.
C7_FailureAborts ==
  /\ f = "Err" \/ decoded = "Err" =>
       /\ pc = "exit"
       /\ ret = "Err"
       /\ ways_to_process = <<>>
       /\ final_ways = <<>>
       /\ stderr = <<>>
       /\ lookups = <<>>
  /\ pc \in Pass2PCs \/ ways_to_process # <<>> \/ lookups # <<>> =>
       /\ f = "Ok"
       /\ decoded = "Ok"
       /\ objects = get_objs_and_deps(dataset)

\* The decoder call failed.
C7_Witness == f = "Ok" /\ decoded = "Err" /\ ret = "Err"

\* The work main has left, as (ways not yet taken, steps left on the way taken,
\* steps left outside the loop); Precedes orders it lexicographically.
WorkLeft ==
  CASE pc = "pass2"    -> <<Cardinality(WaysOf(objects)) + 1, 0, 0>>
    [] pc = "for_way"  -> <<Len(ways_to_process) - wi, 0, 2>>
    [] pc = "for_node" -> <<Len(ways_to_process) - wi, Len(way[1].nodes) - ni + 2, 0>>
    [] pc = "check"    -> <<Len(ways_to_process) - wi, 1, 0>>
    [] pc = "report"   -> <<0, 0, 1>>
    [] OTHER           -> <<0, 0, 0>>

Precedes(m, n) ==
  /\ \A i \in 1..3 : m[i] >= 0
  /\ \/ m[1] < n[1]
     \/ m[1] = n[1] /\ m[2] < n[2]
     \/ m[1] = n[1] /\ m[2] = n[2] /\ m[3] < n[3]

\* C8: once get_objs_and_deps has returned a store, main never returns an
\* error and never stops short of `Ok(())`, and every step it takes lowers the
\* work left: it returns `Ok(())` after finitely many steps, whatever the store.
C8_AlwaysSucceeds ==
  /\ [](decoded = "Ok" => ret # "Err" /\ (ret = "Ok" \/ ENABLED Next))
  /\ [][decoded = "Ok" => Precedes(WorkLeft', WorkLeft)]_vars

\* A successful run in which every candidate way was dropped.
C8_Witness ==
  /\ ret = "Ok"
  /\ ways_to_process # <<>>
  /\ final_ways = <<>>

\* C9: for every way whose iteration is over, the lookups made for it are its
\* references in list order up to the first unresolved one, its warnings are
\* that one reference (with the way's id) if it has one and none otherwise; a
\* way not yet taken has neither; after the loop there are as many warnings as
\* dropped ways.
C9_StopAtFirstUnresolved ==
  /\ \A j \in 1..Len(ways_to_process) :
       LET w == ways_to_process[j] IN
         /\ j <= Finished =>
              /\ LookupsOf(w) = [i \in 1..Examined(w) |-> [way_id |-> w.id, node_id |-> w.nodes[i]]]
              /\ DiagsOf(w) = IF AllResolve(w) THEN <<>>
                              ELSE << [node_id |-> w.nodes[FirstUnresolved(w)], way_id |-> w.id] >>
              /\ RecordsOf(w) # {} => DiagsOf(w) = <<>>
         /\ j > wi => LookupsOf(w) = <<>> /\ DiagsOf(w) = <<>>
  /\ pc \in {"report", "exit"} => Len(stderr) = Len(ways_to_process) - Len(final_ways)
  /\ Len(stderr) <= Len(lookups)

\* A finished run with a way whose first reference is unresolved and is
\* followed by another unresolved reference.
C9_Witness ==
  /\ ret = "Ok"
  /\ \E w \in WaysOf(objects) : 1 \in UnresolvedAt(w) /\ Cardinality(UnresolvedAt(w)) >= 2

====
